---- MODULE Spec2Model ----
(***************************************************************************)
(* Model of src/preprocesamiento/limpieza_datos.py: limpiar_datos_fifa,    *)
(* the eight-stage cleaning pipeline (load, merge + position inference,    *)
(* imputation, derived variables, one-hot encoding, 0-100 normalisation,   *)
(* IQR outlier clipping, save).                                            *)
(*                                                                         *)
(* A cell value is a record [k, n, d, s]:                                  *)
(*   k = "null"  None / NaN / NaT                                          *)
(*   k = "num"   the number n/d (d > 0, gcd(n, d) = 1)                     *)
(*   k = "str"   the text s                                                *)
(*   k = "date"  the day number n (a parsed timestamp)                     *)
(* Numbers are exact rationals; the inputs are integer ratings, for which  *)
(* the float64 arithmetic of pandas gives the same comparisons.            *)
(* A Dataset is [cols |-> set of column names, filas |-> sequence of rows],*)
(* a row being a function from cols to cell values.                        *)
(***************************************************************************)
EXTENDS Integers, Sequences, FiniteSets, TLC

VARIABLES
    pc,                 \* the stage limpiar_datos_fifa is about to run
    db,                 \* the input store data/raw/database.sqlite
    conn,               \* the input connection: "none", "open", "closed"
    conn_salida,        \* the output connection: "none", "open", "closed"
    datos,              \* the Dataset (local variable datos)
    players_info,       \* the identity Dataset (local variable players_info)
    outliers_tratados,  \* column -> clipped count (local dict outliers_tratados)
    tabla_salida,       \* table datos_limpios: "intacto", "escrito", "parcial"
    csv_salida,         \* file datos_limpios.csv: "intacto", "escrito", "parcial"
    resultado,          \* what the caller receives
    log_error,          \* the error message printed, "" when none
    fallo_guardar,      \* the step of stage 8 that failed, "" before stage 8
    etapas              \* the stages that have run, in order

vars == <<pc, db, conn, conn_salida, datos, players_info, outliers_tratados,
          tabla_salida, csv_salida, resultado, log_error, fallo_guardar, etapas>>

(***************************************************************************)
(* Cell values and exact arithmetic                                        *)
(***************************************************************************)
Abs(x) == IF x < 0 THEN -x ELSE x

RECURSIVE GCD(_, _)
GCD(a, b) == IF b = 0 THEN a ELSE GCD(b, a % b)

Null == [k |-> "null", n |-> 0, d |-> 1, s |-> ""]
Str(t) == [k |-> "str", n |-> 0, d |-> 1, s |-> t]
Fecha(dia) == [k |-> "date", n |-> dia, d |-> 1, s |-> ""]

\* the number a/b in lowest terms, b # 0
Rat(a, b) ==
    LET g == GCD(Abs(a), Abs(b))
        sg == IF b < 0 THEN -1 ELSE 1
    IN  [k |-> "num", n |-> sg * (a \div g), d |-> sg * (b \div g), s |-> ""]

Num(i) == Rat(i, 1)

notnull(v) == v.k # "null"
EsNum(v) == v.k = "num"

RLt(a, b) == a.n * b.d < b.n * a.d
RLe(a, b) == a.n * b.d <= b.n * a.d
RAdd(a, b) == Rat(a.n * b.d + b.n * a.d, a.d * b.d)
RSub(a, b) == Rat(a.n * b.d - b.n * a.d, a.d * b.d)
RMul(a, b) == Rat(a.n * b.n, a.d * b.d)
RDiv(a, b) == Rat(a.n * b.d, a.d * b.n)
RMax(a, b) == IF RLt(a, b) THEN b ELSE a

(***************************************************************************)
(* Sequences                                                               *)
(***************************************************************************)
RECURSIVE SelectSeqBy(_, _)
\* the subsequence of seq at the positions in idx (in order)
SelectSeqBy(seq, idx) ==
    IF seq = <<>> THEN <<>>
    ELSE LET n == Len(seq)
             resto == SelectSeqBy(SubSeq(seq, 1, n - 1), idx)
         IN  IF n \in idx THEN Append(resto, seq[n]) ELSE resto

Rango(seq) == {seq[i] : i \in 1..Len(seq)}

RECURSIVE Suma(_)
Suma(seq) == IF seq = <<>> THEN Num(0) ELSE RAdd(seq[1], Suma(Tail(seq)))

\* np.mean / Series.mean of a non-empty sequence of numbers
Media(seq) == RDiv(Suma(seq), Num(Len(seq)))

RECURSIVE Insertar(_, _)
Insertar(v, ord) ==
    IF ord = <<>> THEN <<v>>
    ELSE IF RLe(v, ord[1]) THEN <<v>> \o ord
    ELSE <<ord[1]>> \o Insertar(v, Tail(ord))

RECURSIVE Ordenar(_)
\* the numbers of seq in ascending order
Ordenar(seq) == IF seq = <<>> THEN <<>> ELSE Insertar(seq[1], Ordenar(Tail(seq)))

(***************************************************************************)
(* Datasets                                                                *)
(***************************************************************************)
DatasetVacio == [cols |-> {}, filas |-> <<>>]

NFilas(ds) == Len(ds.filas)

\* the values of column c, in row order
Columna(ds, c) == [i \in 1..NFilas(ds) |-> ds.filas[i][c]]

\* Series.isnull().any()
TieneNulos(ds, c) == \E i \in 1..NFilas(ds) : ~notnull(ds.filas[i][c])

\* the non-null values of a sequence of cells, in order
NoNulos(seq) == SelectSeqBy(seq, {i \in 1..Len(seq) : notnull(seq[i])})

\* datos[c] = nueva, nueva a sequence of one cell per row (adds c when absent)
ConColumna(ds, c, nueva) ==
    [cols |-> ds.cols \cup {c},
     filas |-> [i \in 1..NFilas(ds) |->
                  [x \in ds.cols \cup {c} |->
                      IF x = c THEN nueva[i] ELSE ds.filas[i][x]]]]

\* select_dtypes(include=[np.number]): pandas infers a numeric dtype for a
\* column that holds numbers (and NaN) only, and at least one number
EsNumerica(ds, c) ==
    /\ c \in ds.cols
    /\ \A i \in 1..NFilas(ds) : ds.filas[i][c].k \in {"num", "null"}
    /\ \E i \in 1..NFilas(ds) : ds.filas[i][c].k = "num"

\* select_dtypes(include=['object']): text, mixed and all-None columns
EsObjeto(ds, c) ==
    /\ c \in ds.cols
    /\ ~EsNumerica(ds, c)
    /\ \A i \in 1..NFilas(ds) : ds.filas[i][c].k # "date"

(***************************************************************************)
(* Stage 1: load (lines 18-31)                                             *)
(***************************************************************************)
\* sqlite3.connect(RUTA_ENTRADA) succeeds
ConectaEntrada(d) == d.alcanzable

\* both read_sql_query calls succeed
ConsultasOk(d) == {"Player_Attributes", "Player"} \subseteq d.tablas

\* the load raises inside the try block
FalloCarga(d) == ~ConectaEntrada(d) \/ ~ConsultasOk(d)

\* mutant: the except branch of stage 1 without its return
TrasErrorDeCarga_SinReturn == "fusion"

\* the except branch of stage 1 ends with return (line 31)
TrasErrorDeCarga == "done"

\* conn after stage 1: close() is the last statement of the happy path
\* only (line 26); an exception in a query skips it
ConnTrasCarga(d) ==
    IF ~ConectaEntrada(d) THEN "none"
    ELSE IF ConsultasOk(d) THEN "closed"
    ELSE "open"

Cargar ==
    /\ pc = "cargar"
    /\ etapas' = Append(etapas, "cargar")
    /\ conn' = ConnTrasCarga(db)
    /\ IF FalloCarga(db)
       THEN /\ pc' = TrasErrorDeCarga
            /\ log_error' = "Error al cargar datos"
            /\ resultado' = "None"
            /\ datos' = IF ConectaEntrada(db) /\ "Player_Attributes" \in db.tablas
                        THEN db.atributos ELSE datos
            /\ UNCHANGED players_info
       ELSE /\ pc' = "fusion"
            /\ datos' = db.atributos
            /\ players_info' = db.jugadores
            /\ UNCHANGED <<log_error, resultado>>
    /\ UNCHANGED <<db, conn_salida, outliers_tratados, tabla_salida, csv_salida,
                   fallo_guardar>>

(***************************************************************************)
(* Stage 2: merge and inferred position (lines 33-71)                      *)
(***************************************************************************)
ColsIdentidad == {"player_name", "birthday"}

\* mutant: how='inner', a left row without a match is dropped
FilasFusion_Inner(fila, derecha) ==
    LET idx == {j \in 1..NFilas(derecha) :
                   derecha.filas[j]["player_api_id"] = fila["player_api_id"]}
        pares == SelectSeqBy(derecha.filas, idx)
    IN  [j \in 1..Len(pares) |->
            [x \in DOMAIN fila \cup ColsIdentidad |->
                IF x \in DOMAIN fila THEN fila[x] ELSE pares[j][x]]]

\* the rows of pd.merge(..., on='player_api_id', how='left') for one left row
FilasFusion(fila, derecha) ==
    LET idx == {j \in 1..NFilas(derecha) :
                   derecha.filas[j]["player_api_id"] = fila["player_api_id"]}
        pares == SelectSeqBy(derecha.filas, idx)
        unir(r) == [x \in DOMAIN fila \cup ColsIdentidad |->
                      IF x \in DOMAIN fila THEN fila[x] ELSE r[x]]
        sinPar == [x \in DOMAIN fila \cup ColsIdentidad |->
                      IF x \in DOMAIN fila THEN fila[x] ELSE Null]
    IN  IF idx = {} THEN <<sinPar>>
        ELSE [j \in 1..Len(pares) |-> unir(pares[j])]

RECURSIVE Aplanar(_)
Aplanar(seqs) == IF seqs = <<>> THEN <<>> ELSE seqs[1] \o Aplanar(Tail(seqs))

\* pd.merge(datos, players_info, on='player_api_id', how='left')
merge(izquierda, derecha) ==
    [cols |-> izquierda.cols \cup ColsIdentidad,
     filas |-> Aplanar([i \in 1..NFilas(izquierda) |->
                          FilasFusion(izquierda.filas[i], derecha)])]

gk_attrs == <<"gk_diving", "gk_handling", "gk_kicking", "gk_positioning", "gk_reflexes">>
atributos_defensa == <<"marking", "standing_tackle", "sliding_tackle", "interceptions">>
atributos_medio == <<"vision", "short_passing", "long_passing", "ball_control">>
atributos_ataque == <<"finishing", "shot_power", "long_shots", "positioning">>

UmbralPortero == 50

RECURSIVE GkScan_SinReflexes(_, _)
\* mutant: the scan stops before the last goalkeeper attribute
GkScan_SinReflexes(row, i) ==
    IF i > Len(gk_attrs) - 1 THEN "no"
    ELSE LET a == gk_attrs[i]
         IN  IF a \notin DOMAIN row THEN GkScan_SinReflexes(row, i + 1)
             ELSE IF ~notnull(row[a]) THEN GkScan_SinReflexes(row, i + 1)
             ELSE IF ~EsNum(row[a]) THEN "error"
             ELSE IF RLt(Num(UmbralPortero), row[a]) THEN "si"
             ELSE GkScan_SinReflexes(row, i + 1)

RECURSIVE GkScan(_, _)
\* any(pd.notnull(row.get(a, 0)) and row.get(a, 0) > 50 for a in gk_attrs if a in row),
\* from the i-th attribute on: "si", "no", or "error" when the comparison
\* of a text with 50 raises TypeError before a qualifying attribute is met
GkScan(row, i) ==
    IF i > Len(gk_attrs) THEN "no"
    ELSE LET a == gk_attrs[i]
         IN  IF a \notin DOMAIN row THEN GkScan(row, i + 1)
             ELSE IF ~notnull(row[a]) THEN GkScan(row, i + 1)
             ELSE IF ~EsNum(row[a]) THEN "error"
             ELSE IF RLt(Num(UmbralPortero), row[a]) THEN "si"
             ELSE GkScan(row, i + 1)

\* valores = [row.get(a, 0) for a in attrs if a in row and pd.notnull(row.get(a, 0))]
valores(row, attrs) ==
    LET presentes == SelectSeqBy(attrs, {i \in 1..Len(attrs) : attrs[i] \in DOMAIN row})
    IN  NoNulos([i \in 1..Len(presentes) |-> row[presentes[i]]])

\* np.mean raises on a list that holds a text
PromedioFalla(row, attrs) == \E v \in Rango(valores(row, attrs)) : ~EsNum(v)

\* promedio_atributos: np.mean(valores) if valores else 0
promedio_atributos(row, attrs) ==
    IF valores(row, attrs) = <<>> THEN Num(0) ELSE Media(valores(row, attrs))

\* an exception is raised inside the try block of inferir_posicion
InferenciaFalla(row) ==
    \/ GkScan(row, 1) = "error"
    \/ /\ GkScan(row, 1) = "no"
       /\ \/ PromedioFalla(row, atributos_defensa)
          \/ PromedioFalla(row, atributos_medio)
          \/ PromedioFalla(row, atributos_ataque)

\* mutant: the except branch returns a label outside the closed set
EtiquetaSiFalla_Otra == "Desconocida"

\* the bare except of inferir_posicion (lines 67-68)
EtiquetaSiFalla == "Desconocido"

\* mutant: >= in place of >, a tie goes to the first group tested
EtiquetaPorPuntaje_NoEstricto(score_def, score_med, score_ataq) ==
    IF RLe(RMax(score_def, score_med), score_ataq) THEN "Delantero"
    ELSE IF RLe(RMax(score_def, score_ataq), score_med) THEN "Mediocampista"
    ELSE IF RLe(RMax(score_med, score_ataq), score_def) THEN "Defensa"
    ELSE "Versatil"

\* lines 59-66
EtiquetaPorPuntaje(score_def, score_med, score_ataq) ==
    IF RLt(RMax(score_def, score_med), score_ataq) THEN "Delantero"
    ELSE IF RLt(RMax(score_def, score_ataq), score_med) THEN "Mediocampista"
    ELSE IF RLt(RMax(score_med, score_ataq), score_def) THEN "Defensa"
    ELSE "Versatil"

inferir_posicion(row) ==
    IF InferenciaFalla(row) THEN EtiquetaSiFalla
    ELSE IF GkScan(row, 1) = "si" THEN "Portero"
    ELSE EtiquetaPorPuntaje(promedio_atributos(row, atributos_defensa),
                            promedio_atributos(row, atributos_medio),
                            promedio_atributos(row, atributos_ataque))

Fusionar ==
    /\ pc = "fusion"
    /\ etapas' = Append(etapas, "fusion")
    /\ LET fusion == merge(datos, players_info)
       IN  datos' = ConColumna(fusion, "posicion_inferida",
                        [i \in 1..NFilas(fusion) |->
                            Str(inferir_posicion(fusion.filas[i]))])
    /\ pc' = "imputar"
    /\ UNCHANGED <<db, conn, conn_salida, players_info, outliers_tratados,
                   tabla_salida, csv_salida, resultado, log_error,
                   fallo_guardar>>

(***************************************************************************)
(* Stage 3: nulls filled per inferred position (lines 73-98)               *)
(***************************************************************************)
\* Series.median(): the median of the non-null values, NaN when there is none
Mediana(seq) ==
    LET ord == Ordenar(NoNulos(seq))
        n == Len(ord)
    IN  IF n = 0 THEN Null
        ELSE IF n % 2 = 1 THEN ord[(n + 1) \div 2]
        ELSE RDiv(RAdd(ord[n \div 2], ord[n \div 2 + 1]), Num(2))

\* the cells of column c in the rows whose posicion_inferida is that of row i
Grupo(ds, c, i) ==
    LET idx == {j \in 1..NFilas(ds) :
                   ds.filas[j]["posicion_inferida"] = ds.filas[i]["posicion_inferida"]}
    IN  SelectSeqBy(Columna(ds, c), idx)

\* Series.fillna(relleno), relleno a sequence of one cell per row
fillna(col, relleno) ==
    [i \in 1..Len(col) |-> IF notnull(col[i]) THEN col[i] ELSE relleno[i]]

\* mutant: no fallback to the median of the whole column
ImputarNumerica_SinGlobal(ds, c) ==
    fillna(Columna(ds, c), [i \in 1..NFilas(ds) |-> Mediana(Grupo(ds, c, i))])

\* lines 80-86 for one numeric column: per-position median, then the
\* median of the whole (already filled) column for what is still null
ImputarNumerica(ds, c) ==
    LET porGrupo == fillna(Columna(ds, c),
                           [i \in 1..NFilas(ds) |-> Mediana(Grupo(ds, c, i))])
        global == Mediana(porGrupo)
    IN  fillna(porGrupo, [i \in 1..NFilas(ds) |-> global])

\* the lexicographic order of the texts a categorical column may hold
OrdenTexto == <<"Unknown", "left", "right">>

PosicionTexto(t) == CHOOSE i \in 1..Len(OrdenTexto) : OrdenTexto[i] = t

\* Series.mode()[0]: the most frequent non-null value, the smallest on a tie
Moda(seq) ==
    LET vals == NoNulos(seq)
        cuenta(v) == Cardinality({i \in 1..Len(vals) : vals[i] = v})
        tope == {v \in Rango(vals) : \A w \in Rango(vals) : cuenta(w) <= cuenta(v)}
    IN  CHOOSE v \in tope :
            \A w \in tope : PosicionTexto(v.s) <= PosicionTexto(w.s)

\* lambda x: x.mode()[0] if not x.mode().empty else 'Unknown'
ModaOUnknown(seq) == IF NoNulos(seq) = <<>> THEN Str("Unknown") ELSE Moda(seq)

\* lines 92-95 for one categorical column
ImputarCategorica(ds, c) ==
    fillna(Columna(ds, c), [i \in 1..NFilas(ds) |-> ModaOUnknown(Grupo(ds, c, i))])

\* the categorical columns stages 3 and 5 leave alone (lines 91 and 135)
ExcluirCategoricas == {"date", "birthday", "player_name", "posicion_inferida"}

\* the columns the categorical loop of stage 3 fills
CategoricasImputables(ds) ==
    {c \in ds.cols : EsObjeto(ds, c) /\ c \notin ExcluirCategoricas}

\* one column after stage 3
ColumnaImputada(ds, c) ==
    IF EsNumerica(ds, c) /\ TieneNulos(ds, c) THEN ImputarNumerica(ds, c)
    ELSE IF c \in CategoricasImputables(ds) /\ TieneNulos(ds, c) THEN ImputarCategorica(ds, c)
    ELSE Columna(ds, c)

\* every column is filled from its own values and the position labels only
imputar(ds) ==
    LET nuevas == [c \in ds.cols |-> ColumnaImputada(ds, c)]
    IN  [cols |-> ds.cols,
         filas |-> [i \in 1..NFilas(ds) |-> [c \in ds.cols |-> nuevas[c][i]]]]

Imputar ==
    /\ pc = "imputar"
    /\ etapas' = Append(etapas, "imputar")
    /\ datos' = imputar(datos)
    /\ pc' = "derivar"
    /\ UNCHANGED <<db, conn, conn_salida, players_info, outliers_tratados,
                   tabla_salida, csv_salida, resultado, log_error,
                   fallo_guardar>>

(***************************************************************************)
(* Stage 4: derived variables (lines 100-129)                              *)
(***************************************************************************)
atributos_fisicos == <<"acceleration", "sprint_speed", "stamina", "strength">>
atributos_tecnicos == <<"ball_control", "dribbling", "short_passing">>
atributos_mentales == <<"positioning", "vision", "reactions">>

\* [attr for attr in attrs if attr in datos.columns]
Presentes(ds, attrs) == {a \in Rango(attrs) : a \in ds.cols}

\* datos[attrs].mean(axis=1): the row-wise mean of the numbers, NaN when
\* a row has none
MediaPorFila(ds, cs) ==
    [i \in 1..NFilas(ds) |->
        LET nums == {c \in cs : EsNum(ds.filas[i][c])}
            orden == CHOOSE q \in [1..Cardinality(nums) -> nums] :
                         \A a, b \in 1..Cardinality(nums) : a # b => q[a] # q[b]
        IN  IF nums = {} THEN Null
            ELSE Media([j \in 1..Cardinality(nums) |-> ds.filas[i][orden[j]]])]

\* a score attribute present as a text column: DataFrame.mean(axis=1)
\* raises TypeError in pandas 2 and skips the column in pandas 1
ScoreSobreTexto(ds) ==
    /\ NFilas(ds) > 0
    /\ \E a \in Presentes(ds, atributos_fisicos) \cup Presentes(ds, atributos_tecnicos)
              \cup Presentes(ds, atributos_mentales) : ~EsNumerica(ds, a)

\* the score column of one attribute list, added when an attribute exists
ConScore(ds, nombre, attrs) ==
    IF Presentes(ds, attrs) = {} THEN ds
    ELSE ConColumna(ds, nombre, MediaPorFila(ds, Presentes(ds, attrs)))

\* day numbers (days since 1970-01-01) of the date texts of the inputs
TablaFechas == [t \in {"1990-01-01", "2015-09-21"} |->
                   IF t = "1990-01-01" THEN 7305 ELSE 16699]

\* pd.Timestamp('2016-01-01')
FechaReferenciaDefecto == 16801

\* datos['edad_estimada'] = 25 when there is no birthday column
EdadPorDefecto == 25

\* pd.to_datetime(x, errors='coerce') of one cell
to_datetime(v) ==
    IF v.k = "date" THEN v
    ELSE IF v.k = "str" /\ v.s \in DOMAIN TablaFechas THEN Fecha(TablaFechas[v.s])
    ELSE Null

\* pd.to_datetime(datos['date']) raises on a value that is no date
FechaNoParseable(ds) ==
    /\ "date" \in ds.cols
    /\ \E i \in 1..NFilas(ds) :
          notnull(ds.filas[i]["date"]) /\ ~notnull(to_datetime(ds.filas[i]["date"]))

\* pd.to_datetime(datos['date']).max(), NaT when every date is null
fecha_referencia(ds) ==
    IF "date" \notin ds.cols THEN Fecha(FechaReferenciaDefecto)
    ELSE LET fs == {to_datetime(ds.filas[i]["date"]) : i \in 1..NFilas(ds)} \ {Null}
         IN  IF fs = {} THEN Null
             ELSE CHOOSE f \in fs : \A g \in fs : g.n <= f.n

\* (fecha_referencia - birthday).dt.days / 365.25
Edad(ref, nacimiento) ==
    IF notnull(ref) /\ notnull(nacimiento)
    THEN Rat(4 * (ref.n - nacimiento.n), 1461)
    ELSE Null

\* lines 122-129
ConEdad(ds) ==
    IF "birthday" \in ds.cols
    THEN LET nac == [i \in 1..NFilas(ds) |-> to_datetime(ds.filas[i]["birthday"])]
             conNac == ConColumna(ds, "birthday", nac)
             edad == [i \in 1..NFilas(ds) |-> Edad(fecha_referencia(ds), nac[i])]
             med == Mediana(edad)
         IN  ConColumna(conNac, "edad_estimada",
                        fillna(edad, [i \in 1..NFilas(ds) |-> med]))
    ELSE ConColumna(ds, "edad_estimada", [i \in 1..NFilas(ds) |-> Num(EdadPorDefecto)])

derivar(ds) ==
    ConEdad(ConScore(ConScore(ConScore(ds,
        "score_fisico", atributos_fisicos),
        "score_tecnico", atributos_tecnicos),
        "score_mental", atributos_mentales))

\* whether stage 4 raises; nothing catches what it raises (a date that
\* does not parse always raises, a text score attribute only in pandas 2)
ResultadosDerivar(ds) ==
    IF FechaNoParseable(ds) THEN {TRUE}
    ELSE IF ScoreSobreTexto(ds) THEN {TRUE, FALSE}
    ELSE {FALSE}

Derivar ==
    /\ pc = "derivar"
    /\ etapas' = Append(etapas, "derivar")
    /\ \E falla \in ResultadosDerivar(datos) :
          IF falla
          THEN /\ pc' = "done"
               /\ resultado' = "excepcion"
               /\ UNCHANGED datos
          ELSE /\ pc' = "onehot"
               /\ datos' = derivar(datos)
               /\ UNCHANGED resultado
    /\ UNCHANGED <<db, conn, conn_salida, players_info, outliers_tratados,
                   tabla_salida, csv_salida, log_error, fallo_guardar>>

(***************************************************************************)
(* Stage 5: one-hot encoding (lines 131-146)                               *)
(***************************************************************************)
\* the cardinality cap of line 135
MaxCategorias == 15

\* Series.nunique(): the distinct non-null values
Distintos(ds, c) == Rango(NoNulos(Columna(ds, c)))

columnas_categoricas_onehot(ds) ==
    {c \in ds.cols : /\ EsObjeto(ds, c)
                     /\ c \notin ExcluirCategoricas
                     /\ Cardinality(Distintos(ds, c)) <= MaxCategorias}

\* the name get_dummies gives the indicator of value v of column c
NombreDummy(c, v) == c \o "_" \o v.s

\* pd.get_dummies(..., dtype=int) joined to the other columns
onehot(ds) ==
    LET sel == columnas_categoricas_onehot(ds)
        pares == {<<c, v>> : c \in sel, v \in UNION {Distintos(ds, x) : x \in sel}}
        indic == {p \in pares : p[2] \in Distintos(ds, p[1])}
        origen == [nm \in {NombreDummy(p[1], p[2]) : p \in indic} |->
                     CHOOSE p \in indic : NombreDummy(p[1], p[2]) = nm]
        nuevas == (ds.cols \ sel) \cup DOMAIN origen
    IN  [cols |-> nuevas,
         filas |-> [i \in 1..NFilas(ds) |->
                      [x \in nuevas |->
                          IF x \in ds.cols \ sel THEN ds.filas[i][x]
                          ELSE IF ds.filas[i][origen[x][1]] = origen[x][2]
                               THEN Num(1) ELSE Num(0)]]]

OneHot ==
    /\ pc = "onehot"
    /\ etapas' = Append(etapas, "onehot")
    /\ datos' = onehot(datos)
    /\ pc' = "normalizar"
    /\ UNCHANGED <<db, conn, conn_salida, players_info, outliers_tratados,
                   tabla_salida, csv_salida, resultado, log_error,
                   fallo_guardar>>

(***************************************************************************)
(* Stage 6: 0-100 normalisation (lines 148-171)                            *)
(***************************************************************************)
excluir_normalizacion == {"id", "player_fifa_api_id", "player_api_id", "edad_estimada",
                          "score_fisico", "score_tecnico", "score_mental"}

columnas_a_normalizar(ds) ==
    {c \in ds.cols : EsNumerica(ds, c) /\ c \notin excluir_normalizacion}

\* Series.min() and Series.max() of a column that holds a number
Minimo(col) == LET o == Ordenar(NoNulos(col)) IN o[1]
Maximo(col) == LET o == Ordenar(NoNulos(col)) IN o[Len(o)]

\* the value the constant column takes (line 166)
ValorConstante == 50

\* mutant: the minimum is not subtracted
Escalar_SinMinimo(x, minimo, maximo) ==
    IF notnull(x)
    THEN RDiv(RMul(x, Num(100)), RSub(maximo, minimo))
    ELSE x

\* (x - minimo) * 100 / (maximo - minimo) of one cell (line 163)
Escalar(x, minimo, maximo) ==
    IF notnull(x)
    THEN RDiv(RMul(RSub(x, minimo), Num(100)), RSub(maximo, minimo))
    ELSE x

\* lines 159-167 for one column
NormalizarColumna(col) ==
    LET minimo == Minimo(col)
        maximo == Maximo(col)
    IN  IF RLt(minimo, maximo)
        THEN [i \in 1..Len(col) |-> Escalar(col[i], minimo, maximo)]
        ELSE [i \in 1..Len(col) |-> Num(ValorConstante)]

normalizar(ds) ==
    LET nuevas == [c \in ds.cols |->
                     IF c \in columnas_a_normalizar(ds)
                     THEN NormalizarColumna(Columna(ds, c))
                     ELSE Columna(ds, c)]
    IN  [cols |-> ds.cols,
         filas |-> [i \in 1..NFilas(ds) |-> [c \in ds.cols |-> nuevas[c][i]]]]

Normalizar ==
    /\ pc = "normalizar"
    /\ etapas' = Append(etapas, "normalizar")
    /\ datos' = normalizar(datos)
    /\ pc' = "outliers"
    /\ UNCHANGED <<db, conn, conn_salida, players_info, outliers_tratados,
                   tabla_salida, csv_salida, resultado, log_error,
                   fallo_guardar>>

(***************************************************************************)
(* Stage 7: IQR outlier clipping (lines 173-198)                           *)
(***************************************************************************)
columnas_clave == <<"overall_rating", "potential", "score_fisico", "score_tecnico",
                    "score_mental", "crossing", "finishing", "short_passing",
                    "dribbling", "ball_control">>

\* Series.quantile(a/b): linear interpolation between the order statistics
\* around position (n - 1) * a / b of the non-null values
quantile(col, a, b) ==
    LET ord == Ordenar(NoNulos(col))
        h == (Len(ord) - 1) * a
        lo == h \div b + 1
        fr == h % b
    IN  IF fr = 0 THEN ord[lo]
        ELSE RAdd(ord[lo], RMul(Rat(fr, b), RSub(ord[lo + 1], ord[lo])))

IQR(col) == RSub(quantile(col, 3, 4), quantile(col, 1, 4))

\* Q1 - 1.5 * IQR and Q3 + 1.5 * IQR
limite_inferior(col) == RSub(quantile(col, 1, 4), RMul(Rat(3, 2), IQR(col)))
limite_superior(col) == RAdd(quantile(col, 3, 4), RMul(Rat(3, 2), IQR(col)))

EsOutlier(x, col) ==
    notnull(x) /\ (RLt(x, limite_inferior(col)) \/ RLt(limite_superior(col), x))

\* ((datos[c] < limite_inferior) | (datos[c] > limite_superior)).sum()
outliers_count(col) == Cardinality({i \in 1..Len(col) : EsOutlier(col[i], col)})

\* mutant: only the lower bound is applied
clip_SinSuperior(x, lower, upper) ==
    IF ~notnull(x) THEN x
    ELSE IF RLt(x, lower) THEN lower
    ELSE x

\* Series.clip(lower, upper) of one cell
clip(x, lower, upper) ==
    IF ~notnull(x) THEN x
    ELSE IF RLt(x, lower) THEN lower
    ELSE IF RLt(upper, x) THEN upper
    ELSE x

\* the key columns stage 7 changes: the quantile of a text column raises
\* and the column is skipped, an all-NaN column has a NaN IQR
ColumnasRecortadas(ds) ==
    {c \in Rango(columnas_clave) \cap ds.cols :
        /\ EsNumerica(ds, c)
        /\ RLt(Num(0), IQR(Columna(ds, c)))
        /\ outliers_count(Columna(ds, c)) > 0}

RecortarColumna(col) ==
    [i \in 1..Len(col) |-> clip(col[i], limite_inferior(col), limite_superior(col))]

recortar(ds) ==
    LET nuevas == [c \in ds.cols |->
                     IF c \in ColumnasRecortadas(ds)
                     THEN RecortarColumna(Columna(ds, c))
                     ELSE Columna(ds, c)]
    IN  [cols |-> ds.cols,
         filas |-> [i \in 1..NFilas(ds) |-> [c \in ds.cols |-> nuevas[c][i]]]]

Outliers ==
    /\ pc = "outliers"
    /\ etapas' = Append(etapas, "outliers")
    /\ datos' = recortar(datos)
    /\ outliers_tratados' = [c \in ColumnasRecortadas(datos) |->
                                outliers_count(Columna(datos, c))]
    /\ pc' = "guardar"
    /\ UNCHANGED <<db, conn, conn_salida, players_info,
                   tabla_salida, csv_salida, resultado, log_error,
                   fallo_guardar>>

(***************************************************************************)
(* Stage 8: save (lines 205-244)                                           *)
(***************************************************************************)
\* where stage 8 can fail: the mkdir before the try block, then inside it
\* the connect, the to_sql and the to_csv
FallosGuardar == {"mkdir", "connect", "to_sql", "to_csv"}

\* mutant: the except branch of stage 8 without its return
ResultadoTrasErrorDeGuardado_SinReturn == "datos"

\* what the caller receives when the except branch of stage 8 ran: it ends
\* with a bare return (line 222)
ResultadoTrasErrorDeGuardado == "None"

\* conn_salida after the try block: close() follows to_sql (line 212)
ConnSalidaTras(fallo) ==
    CASE fallo \in {"mkdir", "connect"} -> "none"
      [] fallo = "to_sql" -> "open"
      [] OTHER -> "closed"

Guardar ==
    /\ pc = "guardar"
    /\ etapas' = Append(etapas, "guardar")
    /\ \E fallo \in FallosGuardar \cup {"ninguno"} :
          /\ fallo_guardar' = fallo
          /\ conn_salida' = ConnSalidaTras(fallo)
          /\ \E parcial \in {"intacto", "parcial"} :
                /\ tabla_salida' = CASE fallo \in {"mkdir", "connect"} -> tabla_salida
                                     [] fallo = "to_sql" -> parcial
                                     [] OTHER -> "escrito"
                /\ csv_salida' = CASE fallo = "to_csv" -> parcial
                                   [] fallo = "ninguno" -> "escrito"
                                   [] OTHER -> csv_salida
          /\ log_error' = IF fallo \in {"connect", "to_sql", "to_csv"}
                          THEN "Error al guardar" ELSE log_error
          /\ resultado' = CASE fallo = "mkdir" -> "excepcion"
                            [] fallo = "ninguno" -> "datos"
                            [] OTHER -> ResultadoTrasErrorDeGuardado
    /\ pc' = "done"
    /\ UNCHANGED <<db, conn, datos, players_info, outliers_tratados>>

(***************************************************************************)
(* The input stores                                                        *)
(***************************************************************************)
\* bounds of the enumerated inputs
MaxFilas == 2
MaxColumna == 4
MaxAtributos == 3

Secuencias(S, n) == UNION {[1..m -> S] : m \in 0..n}

\* the Player rows (player_api_id, player_name, birthday)
Jugador(id, nombre, nacimiento) ==
    [c \in {"player_api_id", "player_name", "birthday"} |->
        IF c = "player_api_id" THEN Num(id)
        ELSE IF c = "player_name" THEN nombre ELSE nacimiento]

\* no identity row, one for player 1, two for player 1
TablasJugadores ==
    {<<>>,
     <<Jugador(1, Str("Messi"), Str("1990-01-01"))>>,
     <<Jugador(1, Str("Messi"), Str("1990-01-01")), Jugador(1, Str("Leo"), Null)>>}

\* Player_Attributes with a rating, an attack attribute and a categorical
\* column; row i belongs to player i
FilaGeneral(i, rating, fin, pie) ==
    [c \in {"player_api_id", "overall_rating", "finishing", "preferred_foot"} |->
        CASE c = "player_api_id" -> Num(i)
          [] c = "overall_rating" -> rating
          [] c = "finishing" -> fin
          [] OTHER -> pie]

TablasGenerales(n) ==
    {[i \in 1..Len(q) |-> FilaGeneral(i, q[i][1], q[i][2], q[i][3])] :
        q \in Secuencias({<<r, f[1], f[2]>> :
                             r \in {Null, Num(40), Num(90)},
                             f \in {<<Null, Null>>, <<Num(80), Str("left")>>,
                                    <<Null, Str("right")>>}}, n)}

\* Player_Attributes with one physical attribute and a snapshot date
FilaFisica(i, acc) ==
    [c \in {"player_api_id", "acceleration", "date"} |->
        CASE c = "player_api_id" -> Num(i)
          [] c = "acceleration" -> acc
          [] OTHER -> Str("2015-09-21")]

TablasFisicas ==
    {[i \in 1..Len(q) |-> FilaFisica(i, q[i])] :
        q \in Secuencias({Null, Num(1), Num(5), Num(1000)}, MaxColumna)
              \cup {<<Num(1), Num(2), Num(3), Num(4), Num(5), Num(1000)>>}}

ColsGenerales == {"player_api_id", "overall_rating", "finishing", "preferred_foot"}
ColsFisicas == {"player_api_id", "acceleration", "date"}
ColsJugadores == {"player_api_id", "player_name", "birthday"}

\* the store: whether sqlite3.connect succeeds, the tables it holds, and
\* the Datasets the two queries of stage 1 return
Almacen(ok, tablas, atributos, cols, jugadores) ==
    [alcanzable |-> ok, tablas |-> tablas,
     atributos |-> [cols |-> cols, filas |-> atributos],
     jugadores |-> [cols |-> ColsJugadores, filas |-> jugadores]]

TodasLasTablas == {"Player_Attributes", "Player"}

Init ==
    /\ pc = "cargar"
    /\ \/ \E a \in TablasGenerales(MaxFilas), j \in TablasJugadores :
             db = Almacen(TRUE, TodasLasTablas, a, ColsGenerales, j)
       \/ \E a \in TablasFisicas :
             db = Almacen(TRUE, TodasLasTablas, a, ColsFisicas, <<>>)
       \/ \E ok \in BOOLEAN, t \in SUBSET TodasLasTablas,
             a \in TablasGenerales(1), j \in TablasJugadores :
             /\ ~ok \/ t # TodasLasTablas
             /\ db = Almacen(ok, t, a, ColsGenerales, j)
    /\ conn = "none"
    /\ conn_salida = "none"
    /\ datos = DatasetVacio
    /\ players_info = DatasetVacio
    /\ outliers_tratados = <<>>
    /\ tabla_salida = "intacto"
    /\ csv_salida = "intacto"
    /\ resultado = "pendiente"
    /\ log_error = ""
    /\ fallo_guardar = ""
    /\ etapas = <<>>

Next ==
    \/ Cargar
    \/ Fusionar
    \/ Imputar
    \/ Derivar
    \/ OneHot
    \/ Normalizar
    \/ Outliers
    \/ Guardar

Spec == Init /\ [][Next]_vars

(***************************************************************************)
(* Position inference on its own: the stores hold one attribute row with   *)
(* up to MaxAtributos of the seventeen attributes inferir_posicion reads,  *)
(* plus the rows the specification gives as examples.                      *)
(***************************************************************************)
AtributosInferencia ==
    Rango(gk_attrs) \cup Rango(atributos_defensa) \cup Rango(atributos_medio)
        \cup Rango(atributos_ataque)

\* a null, a rating at the goalkeeper threshold, one above it, a text
ValoresInferencia == {Null, Num(50), Num(80), Str("abc")}

FilaInferencia(f) ==
    [c \in DOMAIN f \cup {"player_api_id"} |->
        IF c = "player_api_id" THEN Num(1) ELSE f[c]]

SubconjuntosAtributos ==
    {T \in SUBSET AtributosInferencia : Cardinality(T) <= MaxAtributos}

\* gk_reflexes = 80 with every other attribute null
FilaPorteroEjemplo ==
    FilaInferencia([a \in AtributosInferencia |->
                       IF a = "gk_reflexes" THEN Num(80) ELSE Null])

\* the three group scores all equal to 40
FilaEmpateEjemplo ==
    FilaInferencia([a \in {"marking", "vision", "finishing"} |-> Num(40)])

\* a record whose inference raises followed by a goalkeeper
TablaDosFilas ==
    <<FilaInferencia([a \in {"gk_reflexes", "finishing"} |->
                         IF a = "gk_reflexes" THEN Str("abc") ELSE Num(80)]),
      FilaInferencia([a \in {"gk_reflexes", "finishing"} |->
                         IF a = "gk_reflexes" THEN Num(80) ELSE Null])>>

TablasEjemplo == {<<FilaPorteroEjemplo>>, <<FilaEmpateEjemplo>>, TablaDosFilas}

AlmacenInferencia(tabla) ==
    Almacen(TRUE, TodasLasTablas, tabla, DOMAIN tabla[1], <<>>)

InitInfer ==
    /\ pc = "cargar"
    /\ \/ \E S \in SubconjuntosAtributos : \E f \in [S -> ValoresInferencia] :
             db = AlmacenInferencia(<<FilaInferencia(f)>>)
       \/ \E t \in TablasEjemplo : db = AlmacenInferencia(t)
    /\ conn = "none"
    /\ conn_salida = "none"
    /\ datos = DatasetVacio
    /\ players_info = DatasetVacio
    /\ outliers_tratados = <<>>
    /\ tabla_salida = "intacto"
    /\ csv_salida = "intacto"
    /\ resultado = "pendiente"
    /\ log_error = ""
    /\ fallo_guardar = ""
    /\ etapas = <<>>

NextInfer ==
    \/ Cargar
    \/ Fusionar

SpecInfer == InitInfer /\ [][NextInfer]_vars

(***************************************************************************)
(* Properties                                                              *)
(***************************************************************************)
\* C1: when the load fails (store unreachable, or Player_Attributes or
\* Player missing) the run ends at once: no stage after the load has run,
\* the output connection was never opened, and neither the datos_limpios
\* table nor the CSV file was touched.
C1_LoadFailureAborts ==
    (FalloCarga(db) /\ pc # "cargar") =>
        /\ pc = "done"
        /\ etapas = <<"cargar">>
        /\ conn_salida = "none"
        /\ tabla_salida = "intacto"
        /\ csv_salida = "intacto"

C1_Witness ==
    /\ pc = "done"
    /\ db.alcanzable
    /\ db.tablas = {"Player_Attributes"}
    /\ log_error = "Error al cargar datos"

C3_ConnectionsClosedOnExit ==
    pc = "done" => (conn # "open" /\ conn_salida # "open")

\* the rows of the loaded attribute table and of the identity table
FilasCargadas == db.atributos.filas
IdsConIdentidad ==
    {db.jugadores.filas[j]["player_api_id"] : j \in 1..NFilas(db.jugadores)}

\* C10: once the merge has run, and through every later stage up to the
\* Dataset the writer receives, every loaded attribute row is in the
\* Dataset, and a row whose player id has no identity row has null
\* identity columns.
C10_NoRecordDropped ==
    (~FalloCarga(db) /\ pc \notin {"cargar", "fusion"}) =>
        /\ NFilas(datos) >= Len(FilasCargadas)
        /\ \A i \in 1..Len(FilasCargadas) :
              \E j \in 1..NFilas(datos) :
                 datos.filas[j]["player_api_id"] = FilasCargadas[i]["player_api_id"]
        /\ \A j \in 1..NFilas(datos) :
              datos.filas[j]["player_api_id"] \notin IdsConIdentidad =>
                 /\ datos.filas[j]["player_name"] = Null
                 /\ datos.filas[j]["birthday"] = Null

\* a matched and an unmatched row both reach the writer
C10_Witness ==
    /\ pc = "guardar"
    /\ Len(FilasCargadas) = 2
    /\ NFilas(datos) = 3
    /\ \E j \in 1..NFilas(datos) : datos.filas[j]["player_name"] = Null

\* the Dataset stage 3 receives: the merge of the loaded tables with the
\* inferred position (stage 2 is a function of the store)
AntesDeImputar ==
    LET fusion == merge(db.atributos, db.jugadores)
    IN  ConColumna(fusion, "posicion_inferida",
                   [i \in 1..NFilas(fusion) |-> Str(inferir_posicion(fusion.filas[i]))])

TeniaValor(ds, c) == \E i \in 1..NFilas(ds) : notnull(ds.filas[i][c])
SinNulos(ds, c) == \A i \in 1..NFilas(ds) : notnull(ds.filas[i][c])

\* C4 as stated: after stage 3, no column that held a non-null value
\* before stage 3 holds a null.
C4_NoNullAfterImputation ==
    pc = "derivar" =>
        \A c \in datos.cols : TeniaValor(AntesDeImputar, c) => SinNulos(datos, c)

\* the columns stage 3 never fills
NoImputadas == {"date", "birthday", "player_name"}

\* C4 amended: after stage 3, no column other than date, birthday and
\* player_name that held a non-null value before stage 3 holds a null.
C4_NoNullAfterImputationExceptIdentity ==
    pc = "derivar" =>
        \A c \in datos.cols \ NoImputadas :
            TeniaValor(AntesDeImputar, c) => SinNulos(datos, c)

\* a rating column with a null and a non-null value, and a categorical
\* column with a null and a non-null value, both filled
C4_Witness ==
    /\ pc = "derivar"
    /\ \A c \in {"overall_rating", "preferred_foot"} :
          /\ TieneNulos(AntesDeImputar, c)
          /\ TeniaValor(AntesDeImputar, c)
          /\ SinNulos(datos, c)

\* the least and the greatest number of a column, stated on their own
EsMinimo(m, col) ==
    /\ \E i \in 1..Len(col) : col[i] = m
    /\ \A i \in 1..Len(col) : EsNum(col[i]) => RLe(m, col[i])
EsMaximo(m, col) ==
    /\ \E i \in 1..Len(col) : col[i] = m
    /\ \A i \in 1..Len(col) : EsNum(col[i]) => RLe(col[i], m)

\* column despues is column antes rescaled to 0-100 from its own extremes
Reescalada(antes, despues) ==
    \E lo, hi \in {v \in Rango(antes) : EsNum(v)} :
        /\ EsMinimo(lo, antes)
        /\ EsMaximo(hi, antes)
        /\ \A i \in 1..Len(antes) :
              /\ EsNum(despues[i])
              /\ RLe(Num(0), despues[i])
              /\ RLe(despues[i], Num(100))
              /\ IF lo = hi THEN despues[i] = Num(50)
                 ELSE RMul(despues[i], RSub(hi, lo)) = RMul(RSub(antes[i], lo), Num(100))

\* C8: stage 6 replaces every numeric column outside the exclusion list
\* by (x - min) * 100 / (max - min) of its own min and max, a number in
\* 0..100, and by 50 throughout when max = min.
C8_NormalizedRange ==
    [][pc = "normalizar" =>
          \A c \in datos.cols :
              (EsNumerica(datos, c) /\ c \notin excluir_normalizacion) =>
                  Reescalada(Columna(datos, c), Columna(datos', c))]_vars

\* a normalised column with 0, 100 and a value strictly between
C8_Witness ==
    /\ pc = "outliers"
    /\ \E c \in datos.cols \ excluir_normalizacion :
          /\ \E i \in 1..NFilas(datos) : datos.filas[i][c] = Num(0)
          /\ \E i \in 1..NFilas(datos) : datos.filas[i][c] = Num(100)
          /\ \E i \in 1..NFilas(datos) :
                /\ EsNum(datos.filas[i][c])
                /\ RLt(Num(0), datos.filas[i][c])
                /\ RLt(datos.filas[i][c], Num(100))
                /\ datos.filas[i][c] # Num(50)

\* the cells of column c before and after the step being taken
Antes(c) == Columna(datos, c)
Despues(c) == Columna(datos', c)

\* the count stage 7 recorded for column c, 0 when it recorded none
Registrado(c) ==
    IF c \in DOMAIN outliers_tratados' THEN outliers_tratados'[c] ELSE 0

\* C9: stage 7, for each numeric key column: with IQR > 0 a value below
\* Q1 - 1.5 IQR becomes that bound, a value above Q3 + 1.5 IQR becomes
\* that bound, a value between them is unchanged, and the count recorded
\* is the number of values outside the bounds; with IQR = 0 the column is
\* unchanged.
C9_OutlierClipping ==
    [][pc = "outliers" =>
          \A c \in Rango(columnas_clave) \cap datos.cols :
              EsNumerica(datos, c) =>
                  LET q1 == quantile(Antes(c), 1, 4)
                      q3 == quantile(Antes(c), 3, 4)
                      iqr == RSub(q3, q1)
                      inf == RSub(q1, RMul(Rat(3, 2), iqr))
                      sup == RAdd(q3, RMul(Rat(3, 2), iqr))
                      fuera == {i \in 1..Len(Antes(c)) :
                                   RLt(Antes(c)[i], inf) \/ RLt(sup, Antes(c)[i])}
                  IN  IF RLt(Num(0), iqr)
                      THEN /\ \A i \in 1..Len(Antes(c)) :
                                 Despues(c)[i] =
                                    IF RLt(Antes(c)[i], inf) THEN inf
                                    ELSE IF RLt(sup, Antes(c)[i]) THEN sup
                                    ELSE Antes(c)[i]
                           /\ Registrado(c) = Cardinality(fuera)
                      ELSE /\ Despues(c) = Antes(c)
                           /\ c \notin DOMAIN outliers_tratados']_vars

\* the column 1, 2, 3, 4, 5, 1000: Q1 = 2.25, Q3 = 4.75, the upper bound
\* is 8.5; 1000 became 8.5 and the count recorded is 1
C9_Witness ==
    /\ pc = "guardar"
    /\ "acceleration" \in db.atributos.cols
    /\ Columna(db.atributos, "acceleration")
          = <<Num(1), Num(2), Num(3), Num(4), Num(5), Num(1000)>>
    /\ Columna(datos, "score_fisico")
          = <<Num(1), Num(2), Num(3), Num(4), Num(5), Rat(17, 2)>>
    /\ outliers_tratados = [c \in {"score_fisico"} |-> 1]

(***************************************************************************)
(* Properties of the position inference (SpecInfer)                        *)
(***************************************************************************)
Posiciones ==
    {"Portero", "Delantero", "Mediocampista", "Defensa", "Versatil", "Desconocido"}

Etiqueta(j) == datos.filas[j]["posicion_inferida"]

\* C5: after stage 2 every record carries a label of the closed set, and
\* a record whose inference raised carries Desconocido.
C5_LabelInClosedSet ==
    pc = "imputar" =>
        \A j \in 1..NFilas(datos) :
            /\ Etiqueta(j) \in {Str(p) : p \in Posiciones}
            /\ InferenciaFalla(db.atributos.filas[j]) => Etiqueta(j) = Str("Desconocido")

\* a record with a text in gk_reflexes is Desconocido and the record
\* after it is labelled as well
C5_Witness ==
    /\ pc = "imputar"
    /\ NFilas(datos) = 2
    /\ datos.filas[1]["gk_reflexes"] = Str("abc")
    /\ Etiqueta(1) = Str("Desconocido")
    /\ Etiqueta(2) = Str("Portero")

\* goalkeeper attribute i of the row is present, a number, and above 50
Califica(row, i) ==
    /\ gk_attrs[i] \in DOMAIN row
    /\ EsNum(row[gk_attrs[i]])
    /\ RLt(Num(50), row[gk_attrs[i]])

EsTexto(row, a) == a \in DOMAIN row /\ row[a].k = "str"

\* C6 as stated: a record with a qualifying goalkeeper attribute is
\* Portero whatever its other attributes hold.
C6_GoalkeeperAlways ==
    pc = "imputar" =>
        \A j \in 1..NFilas(datos) :
            (\E i \in 1..Len(gk_attrs) : Califica(datos.filas[j], i))
                => Etiqueta(j) = Str("Portero")

\* C6 amended: a record with a qualifying goalkeeper attribute is Portero
\* whatever its other attributes hold, provided no goalkeeper attribute
\* examined before the qualifying one holds a text.
C6_GoalkeeperUnlessTextFirst ==
    pc = "imputar" =>
        \A j \in 1..NFilas(datos) :
            (\E i \in 1..Len(gk_attrs) :
                /\ Califica(datos.filas[j], i)
                /\ \A h \in 1..(i - 1) : ~EsTexto(datos.filas[j], gk_attrs[h]))
                => Etiqueta(j) = Str("Portero")

\* gk_reflexes = 80, the sixteen other attributes null
C6_Witness ==
    /\ pc = "imputar"
    /\ AtributosInferencia \subseteq datos.cols
    /\ \A a \in AtributosInferencia :
          datos.filas[1][a] = IF a = "gk_reflexes" THEN Num(80) ELSE Null
    /\ Etiqueta(1) = Str("Portero")

\* the label the three group averages call for
PorPromedios(row) ==
    LET d == promedio_atributos(row, atributos_defensa)
        m == promedio_atributos(row, atributos_medio)
        a == promedio_atributos(row, atributos_ataque)
    IN  IF RLt(d, a) /\ RLt(m, a) THEN "Delantero"
        ELSE IF RLt(d, m) /\ RLt(a, m) THEN "Mediocampista"
        ELSE IF RLt(m, d) /\ RLt(a, d) THEN "Defensa"
        ELSE "Versatil"

SinCalificar(row) == \A i \in 1..Len(gk_attrs) : ~Califica(row, i)

GruposNumericos(row) ==
    \A a \in Rango(atributos_defensa) \cup Rango(atributos_medio)
             \cup Rango(atributos_ataque) : ~EsTexto(row, a)

\* C7 as stated: a record with no qualifying goalkeeper attribute (and
\* group averages that exist) carries the label of the group whose
\* average is strictly the greatest, and Versatil when there is none.
C7_LabelByAverages ==
    pc = "imputar" =>
        \A j \in 1..NFilas(datos) :
            (SinCalificar(datos.filas[j]) /\ GruposNumericos(datos.filas[j]))
                => Etiqueta(j) = Str(PorPromedios(datos.filas[j]))

\* C7 amended: the same for a record that in addition holds no text in a
\* goalkeeper attribute.
C7_LabelByAveragesNoText ==
    pc = "imputar" =>
        \A j \in 1..NFilas(datos) :
            (/\ SinCalificar(datos.filas[j])
             /\ GruposNumericos(datos.filas[j])
             /\ \A a \in Rango(gk_attrs) : ~EsTexto(datos.filas[j], a))
                => Etiqueta(j) = Str(PorPromedios(datos.filas[j]))

\* marking = vision = finishing = 40: the three averages tie, Versatil
C7_Witness ==
    /\ pc = "imputar"
    /\ {"marking", "vision", "finishing"} \subseteq datos.cols
    /\ \A a \in {"marking", "vision", "finishing"} : datos.filas[1][a] = Num(40)
    /\ Etiqueta(1) = Str("Versatil")

====
